---- MODULE Spec2Model ----
\* Model of agent/monitor_agent.py: the MonitoringAgent start-up
\* (__init__, load_config), the main loop (run), collect_metrics and
\* send_metrics.  One action is one blocking operation of the single thread
\* finishing, together with all the code that runs up to the next blocking
\* operation (psutil read, requests.post, time.sleep).
EXTENDS Integers, Sequences, FiniteSets, TLC

\* ---------------------------------------------------------------- bounds
MaxCycles == 3          \* collect operations started in one behaviour
MaxRetry == 3           \* largest retry_attempts a configuration file holds
FileInterval == 7       \* a usable collect_interval in a configuration file
FileDelay == 2          \* a usable retry_delay in a configuration file

\* ------------------------------------------------------- program constants
DefaultInterval == 60
DefaultAttempts == 3
DefaultDelay == 10
\* the handler sleeping the configured interval instead of the fixed 30
BackoffSeconds_interval == DefaultInterval

BackoffSeconds == 30
None == 0               \* Python None for the run-local `metrics`

Keys == {"central_server", "server_name", "collect_interval",
         "retry_attempts", "retry_delay"}

Hostname == "hostname"  \* socket.gethostname()

\* values a configuration file may hold for each field; -1 is a
\* collect_interval that time.sleep rejects with ValueError
FullObjects ==
  {[central_server |-> "http://collector:5000",
    server_name |-> "configured-name",
    collect_interval |-> ci, retry_attempts |-> ra, retry_delay |-> FileDelay] :
      ci \in {FileInterval, -1}, ra \in 0..MaxRetry}

Restrict(f, S) == [k \in S |-> f[k]]

\* JSON objects holding any subset of the five fields
ConfigObjects == {Restrict(o, S) : o \in FullObjects, S \in SUBSET Keys}

\* the configuration sources: no file, a file that cannot be read, a file
\* that is not JSON, a JSON document that is not an object, a JSON object
Files ==
  {[kind |-> k, obj |-> <<>>] :
      k \in {"absent", "unreadable", "malformed", "not_object"}}
  \cup {[kind |-> "object", obj |-> o] : o \in ConfigObjects}

\* the built-in configuration with retry_delay forgotten
DefaultConfig_noDelay ==
  [central_server |-> "http://localhost:5000", server_name |-> Hostname,
   collect_interval |-> DefaultInterval, retry_attempts |-> DefaultAttempts]

\* the built-in configuration of load_config
DefaultConfig ==
  [central_server |-> "http://localhost:5000", server_name |-> Hostname,
   collect_interval |-> DefaultInterval, retry_attempts |-> DefaultAttempts,
   retry_delay |-> DefaultDelay]

\* outcomes of one requests.post call: a 200 response, another status, a
\* requests.exceptions.RequestException, any other Exception
Outcomes == {"200", "non200", "RequestException", "Exception"}

VARIABLES
  file,         \* the configuration source found at config_path
  pc,           \* where the single thread is (the blocking call in progress)
  exit,         \* "running", "clean" (run returned), "error" (exception escaped)
  config,       \* self.config
  server_name,  \* self.server_name
  metrics,      \* run's local `metrics`: None or the sample (named by its cycle)
  cycle,        \* iterations of the while loop started so far
  attempt,      \* send_metrics' loop variable
  collected,    \* this cycle's collect: "pending", "ok", "failed", "interrupted"
  sendResult,   \* this cycle's send: "none", "running", "true", "false",
                \* "raised", "interrupted"
  posts,        \* requests.post calls started by this cycle's send
  outcomes,     \* outcomes of the finished posts of this cycle's send
  retrySleeps,  \* time.sleep(retry_delay) calls started by this cycle's send
  posted,       \* every POST made so far: <<cycle of the POST, sample carried>>
  log,          \* records logged in this cycle
  lastSleep,    \* the time.sleep call entered most recently
  interrupted,  \* a KeyboardInterrupt has been delivered
  stoppedFrom,  \* the phase the interrupt found the loop in
  failedRead,   \* the counter read that raised in this cycle's collect
  sampleKeys    \* the top-level keys of the dictionary `metrics` holds

vars == <<file, pc, exit, config, server_name, metrics, cycle, attempt,
          collected, sendResult, posts, outcomes, retrySleeps, posted, log,
          lastSleep, interrupted, stoppedFrom, failedRead, sampleKeys>>

NoSleep == [call |-> "none", secs |-> 0]

Last(q) == q[Len(q)]

\* ------------------------------------------------------------- start-up
\* load_config: the parsed file, the defaults when the file is absent; any
\* other failure of open() or json.load() is not caught
load_config(f) ==
  CASE f.kind = "absent" -> [raised |-> FALSE, value |-> DefaultConfig]
    [] f.kind \in {"object", "not_object"} -> [raised |-> FALSE, value |-> f.obj]
    [] OTHER -> [raised |-> TRUE, value |-> <<>>]

\* self.config.get('server_name', socket.gethostname())
ResolveServerName(c) ==
  IF "server_name" \in DOMAIN c THEN c["server_name"] ELSE Hostname

Init ==
  /\ file \in Files
  /\ pc = "init"
  /\ exit = "running"
  /\ config = <<>>
  /\ server_name = ""
  /\ metrics = None
  /\ cycle = 0
  /\ attempt = 0
  /\ collected = "pending"
  /\ sendResult = "none"
  /\ posts = 0
  /\ outcomes = <<>>
  /\ retrySleeps = 0
  /\ posted = {}
  /\ log = <<>>
  /\ lastSleep = NoSleep
  /\ interrupted = FALSE
  /\ stoppedFrom = "none"
  /\ failedRead = "none"
  /\ sampleKeys = {}

\* MonitoringAgent.__init__: a list or a scalar parsed from the file has no
\* .get, so line 20 raises AttributeError
Construct ==
  /\ pc = "init"
  /\ LET r == load_config(file) IN
       IF r.raised \/ file.kind = "not_object"
       THEN /\ pc' = "crashed"
            /\ exit' = "error"
            /\ UNCHANGED <<config, server_name>>
       ELSE /\ pc' = "constructed"
            /\ config' = r.value
            /\ server_name' = ResolveServerName(r.value)
            /\ exit' = exit
  /\ UNCHANGED <<failedRead, sampleKeys>>
  /\ UNCHANGED <<file, metrics, cycle, attempt, collected, sendResult, posts,
                 outcomes, retrySleeps, posted, log, lastSleep, interrupted,
                 stoppedFrom>>

\* run, lines 137-144: the three start-up records (a missing key raises
\* KeyError outside the loop's try), then the first collect begins
RunStart ==
  /\ pc = "constructed"
  /\ IF {"central_server", "collect_interval"} \subseteq DOMAIN config
     THEN /\ pc' = "collecting"
          /\ cycle' = 1
          /\ exit' = exit
          /\ log' = <<"Starting monitoring agent", "Central server",
                      "Collection interval">>
     ELSE /\ pc' = "crashed"
          /\ exit' = "error"
          /\ cycle' = cycle
          /\ log' = IF "central_server" \in DOMAIN config
                    THEN <<"Starting monitoring agent", "Central server">>
                    ELSE <<"Starting monitoring agent">>
  /\ UNCHANGED <<failedRead, sampleKeys>>
  /\ UNCHANGED <<file, config, server_name, metrics, attempt, collected,
                 sendResult, posts, outcomes, retrySleeps, posted,
                 lastSleep, interrupted, stoppedFrom>>

\* ------------------------------------------------------ the except clauses
\* run with only `except KeyboardInterrupt`: other exceptions escape the loop
LoopCatches_reraise(e) == e = "KeyboardInterrupt"

\* run's handlers: `except KeyboardInterrupt` and `except Exception`
LoopCatches(e) == e \in {"KeyboardInterrupt", "Exception", "RequestException"}

\* collect_metrics with a bare `except:`, which also swallows the interrupt
CollectCatches_bare(e) == TRUE

\* collect_metrics' handler: `except Exception`
CollectCatches(e) == e \in {"Exception", "RequestException"}

\* send_metrics' handler: `except requests.exceptions.RequestException`
SendCatches(e) == e = "RequestException"

\* run with the interval sleep placed after the try statement
InTry_sleepOutside(p) == p \in {"collecting", "sending", "retry_sleep"}

\* the blocking calls that sit inside run's try block (lines 143-153); the
\* time.sleep(30) of line 160 sits in a handler, outside it
InTry(p) == p \in {"collecting", "sending", "retry_sleep", "sleeping"}

\* send_metrics taking any response for a success
IsSuccess_anyResponse(o) == TRUE

\* response.status_code == 200
IsSuccess(o) == o = "200"

\* range(retry_attempts + 1): one attempt too many
HasNext_offByOne(a, n) == a + 1 <= n

\* `for attempt in range(retry_attempts)`: another iteration follows a
HasNext(a, n) == a + 1 < n

\* line 129: attempt < retry_attempts - 1
SleepsBeforeRetry(a, n) == a < n - 1

\* run without the `if metrics:` test
Truthy_always(m) == TRUE

\* `if metrics:`
Truthy(m) == m # None

\* collect_metrics handing back the sample of the cycle before on failure
collect_metrics_stale(ok, c, old) == IF ok THEN c ELSE old

\* what collect_metrics returns: the sample built in cycle c, or None when
\* a counter read raised (old is the sample of the cycle before)
collect_metrics(ok, c, old) == IF ok THEN c ELSE None

\* the calls of collect_metrics' try block that can raise: the psutil reads
\* (lines 53-69) and the division of line 92 (disk.total = 0)
Reads == {"cpu_percent", "cpu_count", "virtual_memory", "disk_usage",
          "net_io_counters", "getloadavg", "pids", "disk_percent"}

\* the top-level keys of the dictionary of lines 71-101
SampleFields == {"server_name", "timestamp", "cpu", "memory", "disk",
                 "network", "processes"}

\* the key of the sample a read feeds
CategoryOf(r) ==
  CASE r \in {"cpu_percent", "cpu_count", "getloadavg"} -> {"cpu"}
    [] r = "virtual_memory" -> {"memory"}
    [] r \in {"disk_usage", "disk_percent"} -> {"disk"}
    [] r = "net_io_counters" -> {"network"}
    [] r = "pids" -> {"processes"}
    [] OTHER -> {}

\* collect_metrics guarding the division of line 92 and going on without
\* the disk entry
Completes_skipsDisk(fail) == fail \in {"none", "disk_percent"}

\* the try block of collect_metrics reaches `return metrics` only when no
\* read raised
Completes(fail) == fail = "none"

\* the keys of the dictionary built from the reads that did not raise
BuiltKeys(fail) == SampleFields \ CategoryOf(fail)

\* ------------------------------------------------------ pieces of the loop
\* every piece sets pc, exit, log, lastSleep and sendResult

\* the handler leaving the loop (`break`) after logging the error
Unexpected_break(lg, res) ==
  /\ sendResult' = res
  /\ pc' = "stopped"
  /\ exit' = "clean"
  /\ log' = Append(lg, "Unexpected error")
  /\ lastSleep' = lastSleep

\* the handler logging and going on to the next iteration without sleeping
Unexpected_noSleep(lg, res) ==
  /\ sendResult' = res
  /\ pc' = "collecting"
  /\ exit' = exit
  /\ log' = Append(lg, "Unexpected error")
  /\ lastSleep' = lastSleep

\* run, lines 158-160: log the error and sleep 30 seconds
Unexpected(lg, res) ==
  /\ sendResult' = res
  /\ IF LoopCatches("Exception")
     THEN /\ pc' = "backoff"
          /\ exit' = exit
          /\ log' = Append(lg, "Unexpected error")
          /\ lastSleep' = [call |-> "backoff", secs |-> BackoffSeconds]
     ELSE /\ pc' = "crashed"
          /\ exit' = "error"
          /\ log' = lg
          /\ lastSleep' = lastSleep

\* run treating a False from send_metrics as an error
\* (`if not self.send_metrics(metrics): raise ...`)
IntervalSleep_raiseOnFailure(lg, res) ==
  IF config["collect_interval"] >= 0 /\ res # "false"
  THEN /\ pc' = "sleeping"
       /\ exit' = exit
       /\ log' = lg
       /\ lastSleep' = [call |-> "collect_interval",
                        secs |-> config["collect_interval"]]
       /\ sendResult' = res
  ELSE Unexpected(lg, res)

\* run, line 153: time.sleep(collect_interval); a negative length raises
\* ValueError
IntervalSleep(lg, res) ==
  IF config["collect_interval"] >= 0
  THEN /\ pc' = "sleeping"
       /\ exit' = exit
       /\ log' = lg
       /\ lastSleep' = [call |-> "collect_interval",
                        secs |-> config["collect_interval"]]
       /\ sendResult' = res
  ELSE Unexpected(lg, res)

\* send_metrics is over: its loop variable is gone, nothing more is posted
EndSend == attempt' = 0 /\ posts' = posts /\ posted' = posted

\* send_metrics, lines 112-119 and 132-133: the loop goes on after attempt a
\* with the POST of attempt a + 1, or ends with the terminal record and False
ContinueLoop(a, lg, m) ==
  IF HasNext(a, config["retry_attempts"])
  THEN /\ pc' = "sending"
       /\ exit' = exit
       /\ attempt' = a + 1
       /\ posts' = posts + 1
       /\ posted' = posted \cup {<<cycle, m>>}
       /\ log' = lg
       /\ lastSleep' = lastSleep
       /\ sendResult' = "running"
  ELSE /\ IntervalSleep(
            Append(lg, "Failed to send metrics after all retry attempts"),
            "false")
       /\ EndSend

\* send_metrics, lines 110-112: a configuration without retry_attempts
\* raises KeyError
SendBegin(lg, m) ==
  IF "retry_attempts" \in DOMAIN config
  THEN ContinueLoop(-1, lg, m)
  ELSE Unexpected(lg, "raised") /\ EndSend

\* run, lines 144-153, from the moment the counter reads end
CollectReturns(ok) ==
  LET m == collect_metrics(ok, cycle, metrics)
      lg == IF ok THEN log ELSE Append(log, "Error collecting metrics")
  IN /\ metrics' = m
     /\ collected' = IF ok THEN "ok" ELSE "failed"
     /\ IF Truthy(m)
        THEN SendBegin(lg, m)
        ELSE /\ IntervalSleep(Append(lg, "Failed to collect metrics"),
                              sendResult)
             /\ EndSend

\* ------------------------------------------------------------- the actions
\* collect_metrics finishes: the sample, or an exception in a counter read
Collect ==
  /\ pc = "collecting"
  /\ \E fail \in Reads \cup {"none"} :
       LET ok == Completes(fail) IN
       /\ failedRead' = fail
       /\ IF ok \/ CollectCatches("Exception")
          THEN /\ CollectReturns(ok)
               /\ sampleKeys' = IF ok THEN BuiltKeys(fail) ELSE {}
          ELSE /\ Unexpected(log, sendResult)
               /\ EndSend
               /\ collected' = "failed"
               /\ metrics' = metrics
               /\ sampleKeys' = sampleKeys
  /\ UNCHANGED <<file, config, server_name, cycle, outcomes, retrySleeps,
                 interrupted, stoppedFrom>>

\* requests.post finishes with outcome o (lines 114-130)
PostReturns(o) ==
  /\ pc = "sending"
  /\ outcomes' = Append(outcomes, o)
  /\ CASE o \in {"200", "non200"} /\ IsSuccess(o) ->
            /\ IntervalSleep(Append(log, "Metrics sent successfully"), "true")
            /\ EndSend
            /\ retrySleeps' = retrySleeps
       [] o \in {"200", "non200"} /\ ~IsSuccess(o) ->
            /\ ContinueLoop(attempt, Append(log, "Server returned status"),
                            metrics)
            /\ retrySleeps' = retrySleeps
       [] o \notin {"200", "non200"} /\ SendCatches(o) ->
            LET lg == Append(log, "Attempt failed") IN
            IF SleepsBeforeRetry(attempt, config["retry_attempts"])
            THEN IF "retry_delay" \in DOMAIN config
                 THEN /\ pc' = "retry_sleep"
                      /\ exit' = exit
                      /\ log' = lg
                      /\ lastSleep' = [call |-> "retry_delay",
                                       secs |-> config["retry_delay"]]
                      /\ sendResult' = "running"
                      /\ retrySleeps' = retrySleeps + 1
                      /\ UNCHANGED <<attempt, posts, posted>>
                 ELSE /\ Unexpected(lg, "raised")
                      /\ EndSend
                      /\ retrySleeps' = retrySleeps
            ELSE /\ ContinueLoop(attempt, lg, metrics)
                 /\ retrySleeps' = retrySleeps
       [] OTHER ->
            /\ Unexpected(log, "raised")
            /\ EndSend
            /\ retrySleeps' = retrySleeps
  /\ UNCHANGED <<failedRead, sampleKeys>>
  /\ UNCHANGED <<file, config, server_name, metrics, cycle, collected,
                 interrupted, stoppedFrom>>

Post == \E o \in Outcomes : PostReturns(o)

\* time.sleep(retry_delay) finishes and the for loop goes on
RetrySleepDone ==
  /\ pc = "retry_sleep"
  /\ ContinueLoop(attempt, log, metrics)
  /\ UNCHANGED <<failedRead, sampleKeys>>
  /\ UNCHANGED <<file, config, server_name, metrics, cycle, collected,
                 outcomes, retrySleeps, interrupted, stoppedFrom>>

\* the while loop starts its next iteration
NextCycle ==
  /\ cycle < MaxCycles
  /\ pc' = "collecting"
  /\ cycle' = cycle + 1
  /\ collected' = "pending"
  /\ sendResult' = "none"
  /\ attempt' = 0
  /\ posts' = 0
  /\ outcomes' = <<>>
  /\ retrySleeps' = 0
  /\ log' = <<>>
  /\ failedRead' = "none"
  /\ sampleKeys' = sampleKeys
  /\ UNCHANGED <<file, exit, config, server_name, metrics, posted, lastSleep,
                 interrupted, stoppedFrom>>

\* the loop loading the configuration again at the start of each iteration
SleepDone_reload ==
  /\ pc = "sleeping"
  /\ cycle < MaxCycles
  /\ pc' = "collecting"
  /\ cycle' = cycle + 1
  /\ collected' = "pending"
  /\ sendResult' = "none"
  /\ attempt' = 0
  /\ posts' = 0
  /\ outcomes' = <<>>
  /\ retrySleeps' = 0
  /\ log' = <<>>
  /\ failedRead' = "none"
  /\ config' = DefaultConfig
  /\ server_name' = Hostname
  /\ UNCHANGED <<file, exit, metrics, posted, lastSleep, interrupted,
                 stoppedFrom, sampleKeys>>

\* time.sleep(collect_interval) finishes (line 153)
SleepDone == pc = "sleeping" /\ NextCycle

\* time.sleep(30) finishes (line 160)
BackoffDone == pc = "backoff" /\ NextCycle

\* a KeyboardInterrupt is raised in the blocking call in progress
Interrupt ==
  /\ pc \in {"collecting", "sending", "retry_sleep", "sleeping", "backoff"}
  /\ interrupted' = TRUE
  /\ stoppedFrom' = pc
  /\ IF pc = "collecting" /\ CollectCatches("KeyboardInterrupt")
     THEN /\ CollectReturns(FALSE)
          /\ sampleKeys' = {}
          /\ UNCHANGED <<outcomes, retrySleeps, failedRead>>
     ELSE /\ IF InTry(pc) /\ LoopCatches("KeyboardInterrupt")
             THEN /\ pc' = "stopped"
                  /\ exit' = "clean"
                  /\ log' = Append(log, "Monitoring agent stopped by user")
             ELSE /\ pc' = "crashed"
                  /\ exit' = "error"
                  /\ log' = log
          /\ collected' = IF pc = "collecting" THEN "interrupted" ELSE collected
          /\ sendResult' = IF pc \in {"sending", "retry_sleep"}
                           THEN "interrupted" ELSE sendResult
          /\ UNCHANGED <<metrics, attempt, posts, outcomes, retrySleeps,
                         posted, lastSleep, failedRead, sampleKeys>>
  /\ UNCHANGED <<file, config, server_name, cycle>>

Next ==
  \/ Construct
  \/ RunStart
  \/ Collect
  \/ Post
  \/ RetrySleepDone
  \/ SleepDone
  \/ BackoffDone
  \/ Interrupt

Spec == Init /\ [][Next]_vars

\* every blocking call of the thread returns: the counter reads, the POST
\* (10-second timeout) and the sleeps finish; an interrupt may never come
Fairness ==
  /\ WF_vars(Construct)
  /\ WF_vars(RunStart)
  /\ WF_vars(Collect)
  /\ WF_vars(Post)
  /\ WF_vars(RetrySleepDone)
  /\ WF_vars(SleepDone)
  /\ WF_vars(BackoffDone)

FairSpec == Init /\ [][Next]_vars /\ Fairness

\* ===================================================== properties
Attempts == config["retry_attempts"]

\* an attempt that failed inside send_metrics: another status or a
\* transport-level failure
FailedAttempt(o) == o \in {"non200", "RequestException"}

AllFailed(q) == \A i \in 1..Len(q) : FailedAttempt(q[i])

StoppedRecord == "Monitoring agent stopped by user"

\* C1: a send that succeeds on attempt k+1 after k failed attempts (other
\* status or transport failure, in any mix) has made exactly k+1 attempts and
\* exactly k sleeps of retry_delay.
C1_SuccessAfterFailures ==
  (sendResult = "true" /\ AllFailed(SubSeq(outcomes, 1, Len(outcomes) - 1)))
    => /\ posts = Len(outcomes)
       /\ retrySleeps = Len(outcomes) - 1

\* C2: a send whose attempts all fail returns failure after exactly
\* retry_attempts attempts and retry_attempts - 1 sleeps of retry_delay.
C2_FailureAfterAllAttempts ==
  (sendResult = "false" /\ Attempts >= 1 /\ AllFailed(outcomes))
    => /\ posts = Attempts
       /\ retrySleeps = Attempts - 1

\* C3: a send never makes more than retry_attempts POSTs, makes none after a
\* 200, returns success exactly when an attempt returned 200, and a 200 on
\* the first attempt means one attempt and no retry sleep.
C3_BoundedAttempts ==
  /\ posts > 0 => ("retry_attempts" \in DOMAIN config /\ posts <= Attempts)
  /\ \A i \in 1..Len(outcomes) :
       outcomes[i] = "200" =>
         /\ i = Len(outcomes)
         /\ posts = i
         /\ pc \notin {"sending", "retry_sleep"}
  /\ (sendResult = "true") <=> (\E i \in 1..Len(outcomes) : outcomes[i] = "200")
  /\ (Len(outcomes) >= 1 /\ outcomes[1] = "200") =>
       (sendResult = "true" /\ posts = 1 /\ retrySleeps = 0)

C3_Witness ==
  /\ sendResult = "true"
  /\ posts >= 2
  /\ posts = Attempts
  /\ Len(outcomes) = posts

\* C4: every POST carries the sample collected in the cycle of the POST; the
\* one sample the loop refers to is this cycle's, or the previous cycle's only
\* until this cycle's collect returns.
C4_SampleStaysInItsCycle ==
  /\ \A p \in posted : p[2] = p[1]
  /\ pc \in {"sending", "retry_sleep"} => metrics = cycle
  /\ metrics # None =>
       \/ metrics = cycle
       \/ metrics = cycle - 1 /\ collected \in {"pending", "interrupted"}

C4_Witness ==
  /\ cycle >= 2
  /\ pc = "sending"
  /\ <<cycle - 1, cycle - 1>> \in posted
  /\ <<cycle, cycle>> \in posted

\* C5: in a cycle whose collect failed no POST is made, the error is logged,
\* and (collect_interval being a length time.sleep accepts) the loop sleeps
\* collect_interval, which it finishes before the next collect begins.
C5_FailedCollectSkipsSend ==
  /\ [](collected = "failed" =>
          /\ posts = 0
          /\ sendResult = "none"
          /\ \A p \in posted : p[1] # cycle
          /\ \E i \in 1..Len(log) : log[i] = "Failed to collect metrics"
          /\ config["collect_interval"] >= 0 =>
               /\ pc \in {"sleeping", "stopped"}
               /\ lastSleep = [call |-> "collect_interval",
                               secs |-> config["collect_interval"]])
  /\ [][(collected = "failed" /\ config["collect_interval"] >= 0
           /\ pc' = "collecting")
          => pc = "sleeping"]_vars

C5_Witness ==
  /\ collected = "failed"
  /\ pc = "sleeping"
  /\ lastSleep.call = "collect_interval"
  /\ posted # {}

\* the step raises an exception that neither collect_metrics nor
\* send_metrics handles
RaisesUnexpected ==
  \/ /\ pc = "collecting" /\ collected' = "ok"
     /\ "retry_attempts" \notin DOMAIN config
  \/ /\ pc = "sending" /\ Len(outcomes') = Len(outcomes) + 1
     /\ Last(outcomes') = "Exception"
  \/ /\ pc = "sending" /\ Len(outcomes') = Len(outcomes) + 1
     /\ Last(outcomes') = "RequestException"
     /\ attempt < Attempts - 1
     /\ "retry_delay" \notin DOMAIN config
  \/ /\ \/ sendResult' \in {"true", "false"} /\ sendResult' # sendResult
        \/ collected' = "failed" /\ collected = "pending"
     /\ config["collect_interval"] < 0

\* C6: an exception that collect and send do not handle, raised in collect,
\* send or the interval sleep, is logged and followed by a sleep of 30
\* seconds, after which (unless interrupted) the next collect starts.
C6_UnexpectedErrorBacksOff ==
  /\ [][RaisesUnexpected =>
          /\ pc' = "backoff"
          /\ Last(log') = "Unexpected error"
          /\ lastSleep' = [call |-> "backoff", secs |-> 30]
          /\ posted' = posted]_vars
  /\ [][(pc = "backoff" /\ ~interrupted') =>
          (pc' = "collecting" /\ cycle' = cycle + 1)]_vars

C6_Witness ==
  /\ pc = "collecting"
  /\ cycle >= 2
  /\ lastSleep = [call |-> "backoff", secs |-> 30]
  /\ ~interrupted

\* C7: once the loop has started it ends only when an interrupt was
\* delivered.
C7_OnlyInterruptStops ==
  (cycle >= 1 /\ (pc \in {"stopped", "crashed"} \/ exit # "running"))
    => interrupted

C7_Witness ==
  /\ ~interrupted
  /\ cycle >= 2
  /\ pc = "sleeping"
  /\ sendResult = "false"
  /\ lastSleep.call = "collect_interval"
  /\ \E p \in posted : p[1] < cycle

\* C8: an interrupt delivered during the interval sleep ends the loop: the
\* shutdown record is logged, run returns normally, and no collect or POST
\* follows.
C8_InterruptInSleepStops ==
  /\ [][(pc = "sleeping" /\ ~interrupted /\ interrupted') =>
          /\ pc' = "stopped"
          /\ exit' = "clean"
          /\ Last(log') = StoppedRecord
          /\ cycle' = cycle
          /\ posted' = posted]_vars
  /\ [][pc = "stopped" => FALSE]_vars

C8_Witness ==
  /\ pc = "stopped"
  /\ stoppedFrom = "sleeping"
  /\ exit = "clean"
  /\ Last(log) = StoppedRecord

C10_MalformedFallsBack ==
  (file.kind \in {"malformed", "unreadable"} /\ pc # "init")
    => /\ pc # "crashed"
       /\ exit # "error"
       /\ config = DefaultConfig
\* the phases of the running main loop
LoopPhases == {"collecting", "sending", "retry_sleep", "sleeping", "backoff"}

\* C11: while the main loop runs, each of central_server, server_name,
\* collect_interval, retry_attempts and retry_delay has a value, whatever the
\* configuration source.
C11_ConfigFullyResolved ==
  pc \in LoopPhases =>
    /\ (Keys \ {"server_name"}) \subseteq DOMAIN config
    /\ server_name # ""

\* C12: with no configuration file the resolved configuration is exactly
\* http://localhost:5000, the local hostname, 60, 3 and 10.
C12_AbsentFileGivesDefaults ==
  (file.kind = "absent" /\ pc # "init") =>
    /\ config = [central_server |-> "http://localhost:5000",
                 server_name |-> "hostname", collect_interval |-> 60,
                 retry_attempts |-> 3, retry_delay |-> 10]
    /\ server_name = "hostname"
    /\ pc # "crashed" \/ interrupted

C12_Witness ==
  /\ file.kind = "absent"
  /\ pc = "retry_sleep"
  /\ lastSleep = [call |-> "retry_delay", secs |-> 10]
  /\ attempt = 1
\* C13: collect returns a sample holding all of server_name, timestamp, cpu,
\* memory, disk, network and processes, or the failure signal; a failure in
\* any one read (the disk percent division included) gives the failure
\* signal, never a sample with entries missing.
C13_NoPartialSample ==
  /\ collected = "ok" =>
       /\ failedRead = "none"
       /\ metrics = cycle
       /\ sampleKeys = {"server_name", "timestamp", "cpu", "memory", "disk",
                        "network", "processes"}
  /\ failedRead # "none" =>
       /\ collected = "failed"
       /\ metrics = None
       /\ sampleKeys = {}
       /\ posts = 0
       /\ \E i \in 1..Len(log) : log[i] = "Error collecting metrics"
  /\ metrics # None =>
       sampleKeys = {"server_name", "timestamp", "cpu", "memory", "disk",
                     "network", "processes"}

C13_Witness ==
  /\ failedRead = "disk_percent"
  /\ collected = "failed"
  /\ cycle >= 2
  /\ <<cycle - 1, cycle - 1>> \in posted
\* the record send_metrics logs for the outcome of one attempt (lines 122,
\* 125, 128)
RecordOf(o) ==
  CASE o = "200" -> "Metrics sent successfully"
    [] o = "non200" -> "Server returned status"
    [] o = "RequestException" -> "Attempt failed"

IsAttemptRecord(r) ==
  r \in {"Metrics sent successfully", "Server returned status",
         "Attempt failed"}

IsTerminalRecord(r) == r = "Failed to send metrics after all retry attempts"

HandledOutcome(o) == o \in {"200", "non200", "RequestException"}

\* C14: the attempts of a send that ended in a 200, another status or a
\* transport exception have logged one record each, in order, and the
\* terminal record is logged once when the send returned failure and not at
\* all otherwise.
C14_OneRecordPerAttempt ==
  LET recs == SelectSeq(log, IsAttemptRecord)
      outs == SelectSeq(outcomes, HandledOutcome)
      terminal == Len(SelectSeq(log, IsTerminalRecord))
  IN /\ Len(recs) = Len(outs)
     /\ \A i \in 1..Len(outs) : recs[i] = RecordOf(outs[i])
     /\ terminal = IF sendResult = "false" THEN 1 ELSE 0
     /\ (\E i \in 1..Len(outcomes) : outcomes[i] = "200") => terminal = 0

C14_Witness ==
  /\ sendResult = "false"
  /\ outcomes = <<"RequestException", "non200", "RequestException">>
  /\ pc = "sleeping"
\* C15: a POST is made only after this cycle's collect returned a sample,
\* and a collect begins only when a sleep (collect_interval, or the 30
\* seconds of the error path) has finished: never straight after a collect
\* or a send.
C15_PhasesOrdered ==
  /\ [](pc \in {"sending", "retry_sleep"} =>
          (collected = "ok" /\ metrics = cycle))
  /\ [](\A p \in posted : p[1] = cycle => collected = "ok")
  /\ [][(pc \in LoopPhases /\ pc' = "collecting") =>
          /\ pc \in {"sleeping", "backoff"}
          /\ cycle' = cycle + 1
          /\ pc = "sleeping" =>
               lastSleep = [call |-> "collect_interval",
                            secs |-> config["collect_interval"]]
          /\ pc = "backoff" => lastSleep = [call |-> "backoff", secs |-> 30]]_vars
  /\ [][cycle' # cycle => pc' = "collecting"]_vars

C15_Witness ==
  /\ cycle >= 3
  /\ pc = "sending"
  /\ posts >= 2
  /\ lastSleep.call = "retry_delay"
  /\ <<cycle - 1, cycle - 1>> \notin posted
\* C16: an interrupt delivered in any phase of the running loop, the
\* 30-second backoff sleep included, ends the loop on the clean path: the
\* shutdown record is logged and run returns normally.
C16_InterruptAlwaysClean ==
  interrupted =>
    /\ pc = "stopped"
    /\ exit = "clean"
    /\ Last(log) = StoppedRecord
\* C17: when every read, POST and sleep finishes, every send ends, every
\* started cycle reaches its sleep, and each cycle is followed by the next
\* collect unless an interrupt is delivered (cycles counted up to MaxCycles).
C17_LoopProgress ==
  /\ (sendResult = "running") ~> (sendResult # "running")
  /\ (pc = "collecting") ~> (pc \in {"sleeping", "backoff"} \/ interrupted)
  /\ \A c \in 1..(MaxCycles - 1) :
       (cycle = c /\ pc \in LoopPhases) ~>
         ((cycle = c + 1 /\ pc = "collecting") \/ interrupted)

C17_Witness ==
  /\ cycle >= 2
  /\ pc = "collecting"
  /\ ~interrupted
  /\ posted # {}
  /\ lastSleep.call = "collect_interval"
\* C18: once send has returned, True or False alike, the loop is in the one
\* sleep of collect_interval (a length time.sleep accepts), not in the
\* 30-second backoff, and the next collect follows that sleep.
C18_SendResultIgnored ==
  /\ []((sendResult \in {"true", "false"} /\ config["collect_interval"] >= 0)
          => /\ pc \in {"sleeping", "stopped"}
             /\ lastSleep = [call |-> "collect_interval",
                             secs |-> config["collect_interval"]]
             /\ \A i \in 1..Len(log) : log[i] # "Unexpected error")
  /\ [][(sendResult \in {"true", "false"} /\ config["collect_interval"] >= 0
           /\ pc = "sleeping" /\ ~interrupted')
          => (pc' = "collecting" /\ cycle' = cycle + 1)]_vars

C18_Witness ==
  /\ sendResult = "false"
  /\ pc = "sleeping"
  /\ posts >= 1
  /\ posts = Attempts
  /\ cycle >= 2
  /\ <<cycle - 1, cycle - 1>> \in posted
\* C19: every send makes at least one POST before it returns failure or logs
\* the terminal record, for every configuration start-up accepts.
C19_AtLeastOnePost ==
  (sendResult = "false"
     \/ \E i \in 1..Len(log) : IsTerminalRecord(log[i]))
    => posts >= 1

\* C20: no step of the running agent (collect, POST, sleeps, error path,
\* shutdown) changes the configuration or the resolved server_name: they
\* stay what start-up made them.
C20_ConfigImmutable ==
  /\ [][pc # "init" => (config' = config /\ server_name' = server_name)]_vars
  /\ [](cycle >= 1 =>
          /\ config = load_config(file).value
          /\ server_name = ResolveServerName(load_config(file).value))

C20_Witness ==
  /\ pc = "stopped"
  /\ cycle >= 3
  /\ file.kind = "object"
  /\ config = file.obj
  /\ server_name = "configured-name"
  /\ lastSleep.call = "backoff"
  /\ posted # {}
====
